---------------------------- MODULE Spec2Model ----------------------------
(***************************************************************************)
(* Python-OrbitLab: the body simulation loop of the physics style guide    *)
(* (Settings, Body, Simulation), the custom gravity force of the N-body    *)
(* transition guide, and devel/rename_to_lowercase.sh.                     *)
(*                                                                         *)
(* Python floats are modelled as exact rationals [n, d] in lowest terms,   *)
(* so every equality below is an equality of real numbers.                 *)
(***************************************************************************)
EXTENDS Integers, Sequences, FiniteSets, TLC

VARIABLES
    settings,     \* the Settings object of the Simulation
    bodies,       \* the Simulation's bodies, a sequence of Body objects
    running,      \* the local variable of Simulation.run
    pc,           \* the position of the single thread of control
    frame,        \* iterations of the main loop started so far
    collided,     \* the values check_collisions returned last, per body
    start,        \* history: the bodies as constructed
    frame0,       \* history: the bodies when the current iteration began
    updates,      \* history: calls of Body.update so far, per body
    thrust,       \* history: a key changed a velocity in this iteration
    everThrust,   \* history: a key changed a velocity in some iteration
    everBounced,  \* history: check_collisions reported a collision
    quitFrame,    \* history: the iteration that saw QUIT, 0 before
    accel,        \* the constant acceleration of the integration loop
    planet,       \* the orbiting body of the custom physics: pos, vel, mass
    sun,          \* the body that attracts it (self.sun)
    G,            \* the gravitational constant of the program
    d_T,          \* the time step of the custom physics
    f,            \* the value force_vec_due_to returned last
    opc,          \* where the custom physics stands, or the error raised
    fs,           \* the file tree: path -> [id, kind], a path a sequence of names
    listing,      \* the lines of find's output the loop has not read yet
    rpc,          \* where rename_to_lowercase.sh stands
    orig,         \* history: the file tree before the script ran
    renamed,      \* history: the lines for which both mv commands succeeded
    applied       \* history: the forces applied in this frame, in order

gravVars == <<planet, sun, G, d_T, f, opc>>

renVars == <<fs, listing, rpc, orig, renamed>>

vars == <<settings, bodies, running, pc, frame, collided, start, frame0,
          updates, thrust, everThrust, everBounced, quitFrame, accel,
          gravVars, renVars, applied>>

\* What the simulation loop never touches.
simOthers == <<accel, gravVars, renVars, applied>>

---------------------------------------------------------------------------
(* Bounds of the model *)

MaxBodies == 2
MaxFrames == 2
Thrust == 5

---------------------------------------------------------------------------
(* Real arithmetic on rationals in lowest terms, positive denominator.    *)
(* The operations are functions, so that their arguments are values.       *)

Abs(i) == IF i < 0 THEN -i ELSE i

\* Euclid's algorithm
gcd[a \in Nat, b \in Nat] == IF b = 0 THEN a ELSE gcd[b, a % b]

GCD(a, b) == gcd[a, b]

rat[n \in Int, d \in Int] ==
    LET g == GCD(Abs(n), Abs(d))
        s == IF d < 0 THEN -1 ELSE 1
    IN  [n |-> (s * n) \div g, d |-> (s * d) \div g]

\* n / d in lowest terms
Rat(n, d) == rat[n, d]

Rationals == [n : Int, d : Nat \ {0}]

R(i) == [n |-> i, d |-> 1]

Zero == R(0)

radd[p \in Rationals, q \in Rationals] ==
    LET g == GCD(p.d, q.d)
        l == (p.d \div g) * q.d
    IN  Rat(p.n * (l \div p.d) + q.n * (l \div q.d), l)

RAdd(p, q) == radd[p, q]

rneg[p \in Rationals] == [n |-> -p.n, d |-> p.d]

RNeg(p) == rneg[p]

RSub(p, q) == RAdd(p, RNeg(q))

rmul[p \in Rationals, q \in Rationals] ==
    LET g1 == GCD(Abs(p.n), q.d)
        g2 == GCD(Abs(q.n), p.d)
    IN  Rat((p.n \div g1) * (q.n \div g2), (p.d \div g2) * (q.d \div g1))

RMul(p, q) == rmul[p, q]

\* p / q, for q # 0
rinv[q \in Rationals] == Rat(q.d, q.n)

RDiv(p, q) == RMul(p, rinv[q])

rless[p \in Rationals, q \in Rationals] == p.n * q.d < q.n * p.d

RLess(p, q) == rless[p, q]

---------------------------------------------------------------------------
(* Vectors (pygame.Vector2) with rational components *)

Vec(x, y) == [x |-> x, y |-> y]

VSub(u, v) == Vec(RSub(u.x, v.x), RSub(u.y, v.y))

VAdd(u, v) == Vec(RAdd(u.x, v.x), RAdd(u.y, v.y))

VScale(u, k) == Vec(RMul(u.x, k), RMul(u.y, k))

VDiv(u, k) == Vec(RDiv(u.x, k), RDiv(u.y, k))

\* Vector2.distance_squared_to
distance_squared_to(u, v) ==
    LET d == VSub(v, u) IN RAdd(RMul(d.x, d.x), RMul(d.y, d.y))

\* The integer square root, rounded down, by bisection in lo..hi.
bisect[n \in Nat, lo \in Nat, hi \in Nat] ==
    IF lo >= hi THEN lo
    ELSE LET mid == (lo + hi + 1) \div 2
         IN  IF mid * mid <= n THEN bisect[n, mid, hi] ELSE bisect[n, lo, mid - 1]

isqrt[n \in Nat] == bisect[n, 0, IF n < 46340 THEN n ELSE 46340]

IsSquare(n) == isqrt[n] * isqrt[n] = n

\* The square root of a rational that has a rational one.
RSqrt(q) == [n |-> isqrt[q.n], d |-> isqrt[q.d]]

HasRSqrt(q) == q.n >= 0 /\ IsSquare(q.n) /\ IsSquare(q.d)

\* Vector2.length
length(u) == RSqrt(RAdd(RMul(u.x, u.x), RMul(u.y, u.y)))

\* Vector2.normalize, of a vector that is not zero
normalize(u) == VDiv(u, length(u))

---------------------------------------------------------------------------
(* Settings *)

SCREEN_WIDTH == 600
SCREEN_HEIGHT == 600
OBJECT_SIZE == 50
GRAVITY == 60
MASS == 2
FPS == 60
TIMESCALE == 1

\* Settings.__post_init__: d_t = TIMESCALE / FPS
post_init(s) == [s EXCEPT !.d_t = RDiv(R(s.TIMESCALE), R(s.FPS))]

\* The style guide is a template: each program of the curriculum sets its
\* own values.  The guide's defaults, a program without gravity, and a
\* program with a doubled timescale are covered.
SettingsSet ==
    { post_init([SCREEN_WIDTH |-> SCREEN_WIDTH, SCREEN_HEIGHT |-> SCREEN_HEIGHT,
                 OBJECT_SIZE |-> OBJECT_SIZE, GRAVITY |-> g, MASS |-> MASS,
                 FPS |-> FPS, TIMESCALE |-> t, d_t |-> Zero]) :
        g \in {0, GRAVITY}, t \in {TIMESCALE, 2 * TIMESCALE} }

---------------------------------------------------------------------------
(* Body *)

\* Body.__init__
NewBody(x, y, mass, s, v_x, v_y) ==
    [x |-> R(x), y |-> R(y), v_x |-> R(v_x), v_y |-> R(v_y),
     a_x |-> Zero, a_y |-> Zero, mass |-> R(mass), size |-> s.OBJECT_SIZE]

\* A plausible slip: the position is advanced with the old velocity
\* (naive Euler).
Body_update_naive(b, s) ==
    [b EXCEPT !.v_x = RAdd(b.v_x, RMul(b.a_x, s.d_t)),
              !.v_y = RAdd(b.v_y, RMul(b.a_y, s.d_t)),
              !.x = RAdd(b.x, RMul(b.v_x, s.d_t)),
              !.y = RAdd(b.y, RMul(b.v_y, s.d_t)),
              !.a_x = Zero,
              !.a_y = Zero]

\* A plausible slip: the acceleration is not reset after the integration.
Body_update_noreset(b, s) ==
    LET v_x == RAdd(b.v_x, RMul(b.a_x, s.d_t))
        v_y == RAdd(b.v_y, RMul(b.a_y, s.d_t))
    IN  [b EXCEPT !.v_x = v_x, !.v_y = v_y,
                  !.x = RAdd(b.x, RMul(v_x, s.d_t)),
                  !.y = RAdd(b.y, RMul(v_y, s.d_t))]

\* A plausible slip: the reset clears the mass with the acceleration.
Body_update_mass(b, s) ==
    LET v_x == RAdd(b.v_x, RMul(b.a_x, s.d_t))
        v_y == RAdd(b.v_y, RMul(b.a_y, s.d_t))
    IN  [b EXCEPT !.v_x = v_x, !.v_y = v_y,
                  !.x = RAdd(b.x, RMul(v_x, s.d_t)),
                  !.y = RAdd(b.y, RMul(v_y, s.d_t)),
                  !.a_x = Zero, !.a_y = Zero,
                  !.mass = IF b.a_y = Zero THEN b.mass ELSE Zero]

\* A plausible slip: a pasted line keeps a_x in the update of v_y.
Body_update_copy(b, s) ==
    LET v_x == RAdd(b.v_x, RMul(b.a_x, s.d_t))
        v_y == RAdd(b.v_y, RMul(b.a_x, s.d_t))
    IN  [b EXCEPT !.v_x = v_x, !.v_y = v_y,
                  !.x = RAdd(b.x, RMul(v_x, s.d_t)),
                  !.y = RAdd(b.y, RMul(v_y, s.d_t)),
                  !.a_x = Zero, !.a_y = Zero]

\* A plausible slip: the position is advanced by the velocity, without d_t.
Body_update_nodt(b, s) ==
    LET v_x == RAdd(b.v_x, RMul(b.a_x, s.d_t))
        v_y == RAdd(b.v_y, RMul(b.a_y, s.d_t))
    IN  [b EXCEPT !.v_x = v_x, !.v_y = v_y,
                  !.x = RAdd(b.x, v_x),
                  !.y = RAdd(b.y, v_y),
                  !.a_x = Zero, !.a_y = Zero]

\* Body.update
Body_update(b, s) ==
    LET v_x == RAdd(b.v_x, RMul(b.a_x, s.d_t))
        v_y == RAdd(b.v_y, RMul(b.a_y, s.d_t))
    IN  [b EXCEPT !.v_x = v_x,
                  !.v_y = v_y,
                  !.x = RAdd(b.x, RMul(v_x, s.d_t)),
                  !.y = RAdd(b.y, RMul(v_y, s.d_t)),
                  !.a_x = Zero,
                  !.a_y = Zero]

\* A plausible slip: gravity is added to the acceleration already there.
apply_gravity_add(b, gravity) == [b EXCEPT !.a_y = RAdd(b.a_y, R(gravity))]

\* Body.apply_gravity(gravity): sets self.a_y = gravity
apply_gravity(b, gravity) == [b EXCEPT !.a_y = R(gravity)]

\* The boundaries of the world for a body drawn as a size x size square
\* whose corner is its position.
x_min == Zero
y_min == Zero
x_max(b, s) == R(s.SCREEN_WIDTH - b.size)
y_max(b, s) == R(s.SCREEN_HEIGHT - b.size)

crossedX(b, s) == RLess(b.x, x_min) \/ RLess(x_max(b, s), b.x)
crossedY(b, s) == RLess(b.y, y_min) \/ RLess(y_max(b, s), b.y)

clamp(p, lo, hi) == IF RLess(p, lo) THEN lo ELSE IF RLess(hi, p) THEN hi ELSE p

\* A plausible slip: the bounce reverses both velocity components.
check_collisions_both(b, s) ==
    LET hit == crossedX(b, s) \/ crossedY(b, s)
    IN  [body |-> [b EXCEPT !.x = clamp(b.x, x_min, x_max(b, s)),
                            !.y = clamp(b.y, y_min, y_max(b, s)),
                            !.v_x = IF hit THEN RNeg(b.v_x) ELSE b.v_x,
                            !.v_y = IF hit THEN RNeg(b.v_y) ELSE b.v_y],
         hit |-> hit]

\* Body.check_collisions: the elastic bounce off the walls.  It negates the
\* velocity component perpendicular to a crossed boundary, puts the position
\* on that boundary and returns whether a collision occurred.
check_collisions(b, s) ==
    [body |-> [b EXCEPT !.x = clamp(b.x, x_min, x_max(b, s)),
                        !.y = clamp(b.y, y_min, y_max(b, s)),
                        !.v_x = IF crossedX(b, s) THEN RNeg(b.v_x) ELSE b.v_x,
                        !.v_y = IF crossedY(b, s) THEN RNeg(b.v_y) ELSE b.v_y],
     hit |-> crossedX(b, s) \/ crossedY(b, s)]

\* A key-down event: a small change in the velocity of the player.
Keys == {"none", "left", "up"}

key_down(b, key) ==
    CASE key = "left" -> [b EXCEPT !.v_x = RSub(b.v_x, R(Thrust))]
      [] key = "up"   -> [b EXCEPT !.v_y = RSub(b.v_y, R(Thrust))]
      [] OTHER        -> b

---------------------------------------------------------------------------
(* Simulation *)

\* The bodies a program starts with: <<x, y, v_x, v_y>>, inside the world.
Starts ==
    { <<100, 100, 120, -60>>,   \* moving, far from every wall
      <<550, 275, 5, 0>>,       \* on the right wall, vx = 5
      <<1, 548, -300, 300>>,    \* into the lower left corner
      <<275, 2, 5, -300>> }     \* into the top wall

\* No custom physics runs beside the simulation loop.
GravIdle ==
    /\ planet = [pos |-> Vec(Zero, Zero), vel |-> Vec(Zero, Zero), mass |-> R(1)]
    /\ sun = [pos |-> Vec(Zero, Zero), vel |-> Vec(Zero, Zero), mass |-> R(1)]
    /\ G = R(1)
    /\ d_T = R(1)
    /\ f = Vec(Zero, Zero)
    /\ opc = "idle"

\* The rename script does not run.
RenIdle ==
    /\ fs = <<>>
    /\ listing = <<>>
    /\ rpc = "idle"
    /\ orig = <<>>
    /\ renamed = {}

\* Simulation.__init__
Init ==
    /\ settings \in SettingsSet
    /\ \E n \in 1..MaxBodies :
         /\ bodies \in [1..n -> { NewBody(p[1], p[2], settings.MASS, settings,
                                          p[3], p[4]) : p \in Starts }]
         /\ collided = [i \in 1..n |-> FALSE]
         /\ updates = [i \in 1..n |-> 0]
         /\ everBounced = [i \in 1..n |-> FALSE]
    /\ running = TRUE
    /\ pc = "while"
    /\ frame = 0
    /\ start = bodies
    /\ frame0 = bodies
    /\ thrust = FALSE
    /\ everThrust = FALSE
    /\ quitFrame = 0
    /\ accel = [a_x |-> Zero, a_y |-> Zero]
    /\ GravIdle
    /\ RenIdle
    /\ applied = <<>>

N == Len(bodies)

\* A plausible slip: a QUIT event is read and dropped.
event_loop_ignore(run, quit) == run

\* Simulation.run, the event loop: a QUIT event clears running.
event_loop(run, quit) == IF quit THEN FALSE ELSE run

\* A plausible slip: body.update() is called in update() and again by the
\* loop.
update_bodies_twice(bs, s) ==
    [i \in DOMAIN bs |-> Body_update(Body_update(bs[i], s), s)]

\* Simulation.update: call body.update() for each body.
update_bodies(bs, s) == [i \in DOMAIN bs |-> Body_update(bs[i], s)]

\* while running: (true)
LoopEnter ==
    /\ pc = "while"
    /\ running
    /\ frame < MaxFrames
    /\ frame' = frame + 1
    /\ frame0' = bodies
    /\ thrust' = FALSE
    /\ pc' = "events"
    /\ UNCHANGED simOthers
    /\ UNCHANGED <<settings, bodies, running, collided, start, updates,
                   everThrust, everBounced, quitFrame>>

\* while running: (false)
LoopExit ==
    /\ pc = "while"
    /\ ~running
    /\ pc' = "quit"
    /\ UNCHANGED simOthers
    /\ UNCHANGED <<settings, bodies, running, frame, collided, start, frame0,
                   updates, thrust, everThrust, everBounced, quitFrame>>

\* for event in pygame.event.get(): ...
HandleEvents ==
    /\ pc = "events"
    /\ \E quit \in BOOLEAN, key \in Keys :
         /\ running' = event_loop(running, quit)
         /\ bodies' = [bodies EXCEPT ![1] = key_down(bodies[1], key)]
         /\ thrust' = (key # "none")
         /\ everThrust' = (everThrust \/ key # "none")
         /\ quitFrame' = IF quit /\ quitFrame = 0 THEN frame ELSE quitFrame
    /\ pc' = "forces"
    /\ UNCHANGED simOthers
    /\ UNCHANGED <<settings, frame, collided, start, frame0, updates,
                   everBounced>>

\* Simulation.update: apply forces (sets acceleration)
ApplyForces ==
    /\ pc = "forces"
    /\ bodies' = [i \in 1..N |-> apply_gravity(bodies[i], settings.GRAVITY)]
    /\ pc' = "integrate"
    /\ UNCHANGED simOthers
    /\ UNCHANGED <<settings, running, frame, collided, start, frame0, updates,
                   thrust, everThrust, everBounced, quitFrame>>

\* Simulation.update: integrate motion (velocity and position)
Integrate ==
    /\ pc = "integrate"
    /\ bodies' = update_bodies(bodies, settings)
    /\ updates' = [i \in 1..N |-> updates[i] + 1]
    /\ pc' = "collide"
    /\ UNCHANGED simOthers
    /\ UNCHANGED <<settings, running, frame, collided, start, frame0, thrust,
                   everThrust, everBounced, quitFrame>>

\* A plausible slip: update() never calls check_collisions.
Collide_skipped ==
    /\ pc = "collide"
    /\ pc' = "draw"
    /\ UNCHANGED simOthers
    /\ UNCHANGED <<settings, bodies, running, frame, collided, start, frame0,
                   updates, thrust, everThrust, everBounced, quitFrame>>

\* Simulation.update: handle collisions
Collide ==
    /\ pc = "collide"
    /\ bodies' = [i \in 1..N |-> check_collisions(bodies[i], settings).body]
    /\ collided' = [i \in 1..N |-> check_collisions(bodies[i], settings).hit]
    /\ everBounced' = [i \in 1..N |->
                         everBounced[i] \/ check_collisions(bodies[i], settings).hit]
    /\ pc' = "draw"
    /\ UNCHANGED simOthers
    /\ UNCHANGED <<settings, running, frame, start, frame0, updates, thrust,
                   everThrust, quitFrame>>

\* Simulation.draw
Draw ==
    /\ pc = "draw"
    /\ pc' = "tick"
    /\ UNCHANGED simOthers
    /\ UNCHANGED <<settings, bodies, running, frame, collided, start, frame0,
                   updates, thrust, everThrust, everBounced, quitFrame>>

\* self.clock.tick(self.settings.FPS)
Tick ==
    /\ pc = "tick"
    /\ pc' = "while"
    /\ UNCHANGED simOthers
    /\ UNCHANGED <<settings, bodies, running, frame, collided, start, frame0,
                   updates, thrust, everThrust, everBounced, quitFrame>>

\* pygame.quit()
Quit ==
    /\ pc = "quit"
    /\ pc' = "done"
    /\ UNCHANGED simOthers
    /\ UNCHANGED <<settings, bodies, running, frame, collided, start, frame0,
                   updates, thrust, everThrust, everBounced, quitFrame>>

Next ==
    \/ LoopEnter
    \/ LoopExit
    \/ HandleEvents
    \/ ApplyForces
    \/ Integrate
    \/ Collide
    \/ Draw
    \/ Tick
    \/ Quit

Spec == Init /\ [][Next]_vars

\* The loop is the only thread: it takes its next step whenever it has one.
FairSpec == Spec /\ WF_vars(Next)

---------------------------------------------------------------------------
(* The integration step in isolation: the loop of the gravity lesson,     *)
(* "while True: v_x += a_x * d_t; x += v_x * d_t", with the acceleration  *)
(* applied before each Body.update.                                       *)

AccelSet == {-10, 0, 10}

\* Apply a force: it sets the acceleration.
set_acceleration(b, a) == [b EXCEPT !.a_x = a.a_x, !.a_y = a.a_y]

InitStep ==
    /\ settings \in SettingsSet
    /\ bodies \in { <<NewBody(p[1], p[2], settings.MASS, settings, p[3], p[4])>> :
                      p \in Starts }
    /\ accel \in { [a_x |-> R(ax), a_y |-> R(ay)] : ax \in AccelSet, ay \in AccelSet }
    /\ collided = <<FALSE>>
    /\ updates = <<0>>
    /\ everBounced = <<FALSE>>
    /\ running = TRUE
    /\ pc = "apply"
    /\ frame = 0
    /\ start = bodies
    /\ frame0 = bodies
    /\ thrust = FALSE
    /\ everThrust = FALSE
    /\ quitFrame = 0
    /\ GravIdle
    /\ RenIdle
    /\ applied = <<>>

StepApply ==
    /\ pc = "apply"
    /\ frame < MaxFrames
    /\ frame' = frame + 1
    /\ bodies' = [i \in 1..N |-> set_acceleration(bodies[i], accel)]
    /\ pc' = "update"
    /\ UNCHANGED <<settings, running, collided, start, frame0, updates, thrust,
                   everThrust, everBounced, quitFrame, accel, gravVars,
                   renVars, applied>>

StepUpdate ==
    /\ pc = "update"
    /\ bodies' = update_bodies(bodies, settings)
    /\ updates' = [i \in 1..N |-> updates[i] + 1]
    /\ pc' = "apply"
    /\ UNCHANGED <<settings, running, frame, collided, start, frame0, thrust,
                   everThrust, everBounced, quitFrame, accel, gravVars,
                   renVars, applied>>

NextStep ==
    \/ StepApply
    \/ StepUpdate

SpecStep == InitStep /\ [][NextStep]_vars

---------------------------------------------------------------------------
(* A program that applies several forces in one frame: gravity and the     *)
(* spring of the spring lesson, in either order, before Body.update.       *)

\* The fixed point the spring is attached to, and the spring constant K.
TargetSet == { <<300, 300>>, <<100, 500>> }
KSet == {1, 3}

\* Hooke's law, F = -k x, x the displacement from the fixed point.
spring_force(b, t_x, t_y, k) ==
    LET d_x == RSub(b.x, R(t_x))
        d_y == RSub(b.y, R(t_y))
    IN  [f_x |-> RNeg(RMul(R(k), d_x)), f_y |-> RNeg(RMul(R(k), d_y))]

\* Body.apply_spring_force(t_x, t_y, k): calculates and sets acceleration,
\* a = F / m.
apply_spring_force(b, t_x, t_y, k) ==
    LET F == spring_force(b, t_x, t_y, k)
    IN  [b EXCEPT !.a_x = RDiv(F.f_x, b.mass), !.a_y = RDiv(F.f_y, b.mass)]

\* The programs followed here run at a time scale of FPS / 2 or FPS, that
\* is d_t = 1/2 or 1: the spring force depends on the position, and with
\* these steps the coordinates stay short fractions frame after frame.
ForcesSettingsSet ==
    { post_init([s EXCEPT !.TIMESCALE = t]) :
        s \in SettingsSet, t \in {FPS \div 2, FPS} }

InitForces ==
    /\ settings \in ForcesSettingsSet
    /\ bodies \in { <<NewBody(p[1], p[2], settings.MASS, settings, p[3], p[4])>> :
                      p \in Starts }
    /\ collided = <<FALSE>>
    /\ updates = <<0>>
    /\ everBounced = <<FALSE>>
    /\ running = TRUE
    /\ pc = "while"
    /\ frame = 0
    /\ start = bodies
    /\ frame0 = bodies
    /\ thrust = FALSE
    /\ everThrust = FALSE
    /\ quitFrame = 0
    /\ accel = [a_x |-> Zero, a_y |-> Zero]
    /\ GravIdle
    /\ RenIdle
    /\ applied = <<>>

Applied(name) == \E i \in DOMAIN applied : applied[i].name = name

\* while running: the next frame, update begins
FrameBegin ==
    /\ pc = "while"
    /\ frame < MaxFrames
    /\ frame' = frame + 1
    /\ frame0' = bodies
    /\ applied' = <<>>
    /\ pc' = "forces"
    /\ UNCHANGED <<settings, bodies, running, collided, start, updates, thrust,
                   everThrust, everBounced, quitFrame, accel, gravVars,
                   renVars>>

\* body.apply_gravity(self.settings.GRAVITY)
ApplyGravity ==
    /\ pc = "forces"
    /\ ~Applied("gravity")
    /\ bodies' = [i \in 1..N |-> apply_gravity(bodies[i], settings.GRAVITY)]
    /\ applied' = Append(applied, [name |-> "gravity",
                                   a_x |-> Zero,
                                   a_y |-> R(settings.GRAVITY),
                                   sets |-> {"a_y"}])
    /\ UNCHANGED <<settings, running, pc, frame, collided, start, frame0,
                   updates, thrust, everThrust, everBounced, quitFrame, accel,
                   gravVars, renVars>>

\* body.apply_spring_force(t_x, t_y, k)
ApplySpring ==
    /\ pc = "forces"
    /\ ~Applied("spring")
    /\ \E t \in TargetSet, k \in KSet :
         LET F == spring_force(bodies[1], t[1], t[2], k)
         IN  /\ bodies' = [i \in 1..N |->
                              apply_spring_force(bodies[i], t[1], t[2], k)]
             /\ applied' = Append(applied,
                                  [name |-> "spring",
                                   a_x |-> RDiv(F.f_x, bodies[1].mass),
                                   a_y |-> RDiv(F.f_y, bodies[1].mass),
                                   sets |-> {"a_x", "a_y"}])
    /\ UNCHANGED <<settings, running, pc, frame, collided, start, frame0,
                   updates, thrust, everThrust, everBounced, quitFrame, accel,
                   gravVars, renVars>>

\* the forces of this frame are applied: body.update() is next
ForcesDone ==
    /\ pc = "forces"
    /\ pc' = "integrate"
    /\ UNCHANGED <<settings, bodies, running, frame, collided, start, frame0,
                   updates, thrust, everThrust, everBounced, quitFrame, accel,
                   gravVars, renVars, applied>>

NextForces ==
    \/ FrameBegin
    \/ ApplyGravity
    \/ ApplySpring
    \/ ForcesDone
    \/ Integrate
    \/ Collide
    \/ Draw
    \/ Tick

SpecForces == InitForces /\ [][NextForces]_vars

---------------------------------------------------------------------------
(* The custom physics of the transition guide: one planet, one sun *)

MaxCoord == 1

\* Positions whose distances are rational: a 3-4-5 grid.
Grid == { Vec(R(3 * i), R(4 * j)) : i \in -MaxCoord..MaxCoord,
                                     j \in -MaxCoord..MaxCoord }

MassSet == {1, 2}
GSet == {1, 6}
VelSet == { Vec(Zero, Zero), Vec(Zero, R(1)) }
StepSet == { R(1), Rat(1, 2) }

\* A plausible slip: the force points away from the other body.
force_vec_due_to_away(self, other) ==
    LET r2 == distance_squared_to(self.pos, other.pos)
    IN  IF r2 = Zero
        THEN [raised |-> "ZeroDivisionError"]
        ELSE LET f_g == RDiv(RMul(RMul(G, self.mass), other.mass), r2)
             IN  [raised |-> "none",
                  value |-> VScale(normalize(VSub(self.pos, other.pos)), f_g)]

\* A plausible slip: the force falls off with r, not r^2.
force_vec_due_to_linear(self, other) ==
    LET r2 == distance_squared_to(self.pos, other.pos)
    IN  IF r2 = Zero
        THEN [raised |-> "ZeroDivisionError"]
        ELSE LET f_g == RDiv(RMul(RMul(G, self.mass), other.mass), RSqrt(r2))
             IN  [raised |-> "none",
                  value |-> VScale(normalize(VSub(other.pos, self.pos)), f_g)]

\* A plausible slip: coincident bodies are given a zero force instead of the
\* division that fails.
force_vec_due_to_guarded(self, other) ==
    LET r2 == distance_squared_to(self.pos, other.pos)
    IN  IF r2 = Zero
        THEN [raised |-> "none", value |-> Vec(Zero, Zero)]
        ELSE LET f_g == RDiv(RMul(RMul(G, self.mass), other.mass), r2)
             IN  [raised |-> "none",
                  value |-> VScale(normalize(VSub(other.pos, self.pos)), f_g)]

\* force_vec_due_to: the division by r2 = 0 raises ZeroDivisionError.
force_vec_due_to(self, other) ==
    LET r2 == distance_squared_to(self.pos, other.pos)
    IN  IF r2 = Zero
        THEN [raised |-> "ZeroDivisionError"]
        ELSE LET f_g == RDiv(RMul(RMul(G, self.mass), other.mass), r2)
             IN  [raised |-> "none",
                  value |-> VScale(normalize(VSub(other.pos, self.pos)), f_g)]

\* A plausible slip: the position is advanced with the old velocity.
orbit_step_naive(self, fv) ==
    LET a == VDiv(fv, self.mass)
    IN  [self EXCEPT !.vel = VAdd(self.vel, VScale(a, d_T)),
                     !.pos = VAdd(self.pos, VScale(self.vel, d_T))]

\* update, after the force is known: a = f / self.mass; self.vel += a * d_T;
\* self.pos += self.vel * d_T
orbit_step(self, fv) ==
    LET a == VDiv(fv, self.mass)
        vel == VAdd(self.vel, VScale(a, d_T))
        pos == VAdd(self.pos, VScale(vel, d_T))
    IN  [self EXCEPT !.vel = vel, !.pos = pos]

\* update, of the planet
orbit_update(self) ==
    LET r == force_vec_due_to(self, sun)
    IN  IF r.raised # "none"
        THEN [raised |-> r.raised, body |-> self]
        ELSE [raised |-> "none", body |-> orbit_step(self, r.value)]

\* The model holds a distance only when it is rational.  After an update
\* the distance is irrational in general, so the model follows one frame.
Representable(p, q) == HasRSqrt(distance_squared_to(p.pos, q.pos))

InitGrav ==
    /\ planet \in [pos : Grid, vel : VelSet, mass : {R(m) : m \in MassSet}]
    /\ sun \in [pos : Grid, vel : {Vec(Zero, Zero)}, mass : {R(m) : m \in MassSet}]
    /\ Representable(planet, sun)
    /\ G \in {R(g) : g \in GSet}
    /\ d_T \in StepSet
    /\ f = Vec(Zero, Zero)
    /\ opc = "ready"
    /\ frame = 0
    /\ settings \in {s \in SettingsSet : s.GRAVITY = GRAVITY /\ s.TIMESCALE = TIMESCALE}
    /\ bodies = <<>>
    /\ collided = <<>>
    /\ updates = <<>>
    /\ everBounced = <<>>
    /\ running = TRUE
    /\ pc = "idle"
    /\ start = <<>>
    /\ frame0 = <<>>
    /\ thrust = FALSE
    /\ everThrust = FALSE
    /\ quitFrame = 0
    /\ accel = [a_x |-> Zero, a_y |-> Zero]
    /\ RenIdle
    /\ applied = <<>>

gravOthers == <<settings, bodies, running, pc, collided, start, frame0,
                updates, thrust, everThrust, everBounced, quitFrame, accel,
                renVars, applied>>

\* f = self.force_vec_due_to(self.sun)
CallForce ==
    /\ opc = "ready"
    /\ LET r == force_vec_due_to(planet, sun)
       IN  IF r.raised = "none"
           THEN f' = r.value /\ opc' = "returned"
           ELSE f' = f /\ opc' = r.raised
    /\ UNCHANGED <<planet, sun, G, d_T, frame>>
    /\ UNCHANGED gravOthers

\* planet.update(), one frame
OrbitUpdate ==
    /\ opc \in {"ready", "returned"}
    /\ LET r == orbit_update(planet)
       IN  /\ planet' = r.body
           /\ opc' = IF r.raised = "none" THEN "updated" ELSE r.raised
    /\ UNCHANGED <<sun, G, d_T, f, frame>>
    /\ UNCHANGED gravOthers

NextGrav ==
    \/ CallForce
    \/ OrbitUpdate

SpecGrav == InitGrav /\ [][NextGrav]_vars

---------------------------------------------------------------------------
(* The custom update beside the style guide's Body: both start from the    *)
(* same state and are given the same force in every frame.  The force that *)
(* force_vec_due_to returns is the input of the frame.                     *)

ForceSet == { Vec(R(i), R(j)) : i \in {-6, 0, 4}, j \in {-6, 0, 4} }

\* The planet of the custom physics built from the state of a Body.
AsPlanet(b) ==
    [pos |-> Vec(b.x, b.y), vel |-> Vec(b.v_x, b.v_y), mass |-> b.mass]

InitOrbit ==
    /\ settings \in {s \in SettingsSet : s.GRAVITY = GRAVITY}
    /\ \E mass \in MassSet :
         bodies \in { <<NewBody(p[1], p[2], mass, settings, p[3], p[4])>> :
                        p \in Starts }
    /\ planet = AsPlanet(bodies[1])
    /\ sun = [pos |-> Vec(R(300), R(300)), vel |-> Vec(Zero, Zero),
              mass |-> R(MASS)]
    /\ G = R(1)
    /\ d_T = settings.d_t
    /\ f = Vec(Zero, Zero)
    /\ opc = "ready"
    /\ pc = "ready"
    /\ frame = 0
    /\ collided = <<FALSE>>
    /\ updates = <<0>>
    /\ everBounced = <<FALSE>>
    /\ running = TRUE
    /\ start = bodies
    /\ frame0 = bodies
    /\ thrust = FALSE
    /\ everThrust = FALSE
    /\ quitFrame = 0
    /\ accel = [a_x |-> Zero, a_y |-> Zero]
    /\ RenIdle
    /\ applied = <<>>

\* The next frame: f = self.force_vec_due_to(self.sun)
OrbitForce ==
    /\ pc = "ready"
    /\ opc = "ready"
    /\ frame < MaxFrames
    /\ frame' = frame + 1
    /\ frame0' = bodies
    /\ f' \in ForceSet
    /\ pc' = "force"
    /\ opc' = "force"
    /\ UNCHANGED <<planet, sun, G, d_T>>
    /\ UNCHANGED <<settings, bodies, running, collided, start, updates, thrust,
                   everThrust, everBounced, quitFrame, accel, renVars,
                   applied>>

\* The custom update: a = f / self.mass; self.vel += ...; self.pos += ...
OrbitStep ==
    /\ opc = "force"
    /\ planet' = orbit_step(planet, f)
    /\ opc' = "ready"
    /\ UNCHANGED <<sun, G, d_T, f, frame>>
    /\ UNCHANGED gravOthers

\* The style guide: apply the force, acceleration = f / mass
BodyApply ==
    /\ pc = "force"
    /\ bodies' = [i \in 1..N |->
                    set_acceleration(bodies[i],
                                     [a_x |-> RDiv(f.x, bodies[i].mass),
                                      a_y |-> RDiv(f.y, bodies[i].mass)])]
    /\ pc' = "integrate"
    /\ UNCHANGED <<settings, running, frame, collided, start, frame0, updates,
                   thrust, everThrust, everBounced, quitFrame, accel, gravVars,
                   renVars, applied>>

\* The style guide: body.update()
BodyUpdate ==
    /\ pc = "integrate"
    /\ bodies' = update_bodies(bodies, settings)
    /\ updates' = [i \in 1..N |-> updates[i] + 1]
    /\ pc' = "ready"
    /\ UNCHANGED <<settings, running, frame, collided, start, frame0, thrust,
                   everThrust, everBounced, quitFrame, accel, gravVars,
                   renVars, applied>>

NextOrbit ==
    \/ OrbitForce
    \/ OrbitStep
    \/ BodyApply
    \/ BodyUpdate

SpecOrbit == InitOrbit /\ [][NextOrbit]_vars

---------------------------------------------------------------------------
(* devel/rename_to_lowercase.sh on a case-sensitive file system *)

MaxEntries == 3

\* A name is a sequence of characters, a path a sequence of names.
Lessons == <<"l", "e", "s", "s", "o", "n", "s">>
Names == { <<"A", "b">>, <<"a", "b">> }

\* .tmp_rename_$$: one name, the same for the whole run
TmpName == <<".", "t", "m", "p", "_", "r", "e", "n", "a", "m", "e", "_", "$$">>

UpperChars == <<"A", "B", "C", "D", "E", "F", "G", "H", "I", "J", "K", "L", "M",
                "N", "O", "P", "Q", "R", "S", "T", "U", "V", "W", "X", "Y", "Z">>
LowerChars == <<"a", "b", "c", "d", "e", "f", "g", "h", "i", "j", "k", "l", "m",
                "n", "o", "p", "q", "r", "s", "t", "u", "v", "w", "x", "y", "z">>

\* tr '[:upper:]' '[:lower:]', on one character
tr(c) ==
    IF \E k \in DOMAIN UpperChars : UpperChars[k] = c
    THEN LowerChars[CHOOSE k \in DOMAIN UpperChars : UpperChars[k] = c]
    ELSE c

\* lowerbase=$(echo "$base" | tr '[:upper:]' '[:lower:]')
lowerbase(base) == [i \in DOMAIN base |-> tr(base[i])]

dirname(p) == SubSeq(p, 1, Len(p) - 1)
basename(p) == p[Len(p)]

IsPrefix(p, q) == Len(p) <= Len(q) /\ SubSeq(q, 1, Len(p)) = p

\* The entry at p and everything below it.
Under(t, p) == { q \in DOMAIN t : IsPrefix(p, q) }

\* rename(2): src exists.  A file replaces a file, a directory replaces an
\* empty directory; the other clashes fail and change nothing.
rename(t, src, dst) ==
    LET clash == dst \in DOMAIN t
        allowed ==
            \/ ~clash
            \/ t[src].kind = "file" /\ t[dst].kind = "file"
            \/ t[src].kind = "dir" /\ t[dst].kind = "dir" /\ Under(t, dst) = {dst}
        moved == Under(t, src)
        kept == DOMAIN t \ (moved \cup Under(t, dst))
        to(q) == dst \o SubSeq(q, Len(src) + 1, Len(q))
    IN  IF ~allowed \/ IsPrefix(src, dst)
        THEN [fs |-> t, ok |-> FALSE]
        ELSE [fs |-> [q \in kept \cup { to(m) : m \in moved } |->
                        IF q \in kept THEN t[q]
                        ELSE t[CHOOSE m \in moved : to(m) = q]],
              ok |-> TRUE]

\* mv src dst: into dst when dst is a directory, else onto dst.
mv(t, src, dst) ==
    IF src \notin DOMAIN t
    THEN [fs |-> t, ok |-> FALSE]
    ELSE IF dst \in DOMAIN t /\ t[dst].kind = "dir"
         THEN rename(t, src, dst \o <<basename(src)>>)
         ELSE rename(t, src, dst)

RECURSIVE Walk(_, _, _), WalkKids(_, _, _, _)
\* find -depth: the entries below p, then p
Walk(t, p, ord) == WalkKids(t, p, ord, 1) \o <<p>>

WalkKids(t, p, ord, i) ==
    IF i > Len(ord) THEN <<>>
    ELSE (IF p \o <<ord[i]>> \in DOMAIN t THEN Walk(t, p \o <<ord[i]>>, ord) ELSE <<>>)
         \o WalkKids(t, p, ord, i + 1)

RECURSIVE PreWalk(_, _, _), PreWalkKids(_, _, _, _)
PreWalk(t, p, ord) == <<p>> \o PreWalkKids(t, p, ord, 1)

PreWalkKids(t, p, ord, i) ==
    IF i > Len(ord) THEN <<>>
    ELSE (IF p \o <<ord[i]>> \in DOMAIN t THEN PreWalk(t, p \o <<ord[i]>>, ord) ELSE <<>>)
         \o PreWalkKids(t, p, ord, i + 1)

\* A plausible slip: find without -depth lists a directory before its
\* entries.
find_plain(t, ord) == PreWalk(t, <<Lessons>>, ord)

\* find "lessons/" -depth -print, reading each directory in the order ord
find_depth(t, ord) == Walk(t, <<Lessons>>, ord)

\* The orders in which a directory can hand out its entries.
Orders == { o \in [1..Cardinality(Names) -> Names] :
              \A i, j \in DOMAIN o : i # j => o[i] # o[j] }

\* The trees with at most k entries below lessons/, as sets of paths.
RECURSIVE TreesUpTo(_)
TreesUpTo(k) ==
    IF k = 0 THEN { { <<Lessons>> } }
    ELSE LET S == TreesUpTo(k - 1)
         IN  S \cup { T \cup { p \o <<n>> } : T \in S, p \in UNION S, n \in Names }

PrefixClosed(T) == \A p \in T : Len(p) = 1 \/ dirname(p) \in T

Leaves(T) == { p \in T : Len(p) > 1 /\ ~\E q \in T : q # p /\ IsPrefix(p, q) }

InitRename ==
    /\ \E T \in { U \in TreesUpTo(MaxEntries) :
                    PrefixClosed(U) /\ Cardinality(U) <= MaxEntries + 1 } :
         \E files \in SUBSET Leaves(T) :
            fs = [p \in T |-> [id |-> p,
                               kind |-> IF p \in files THEN "file" ELSE "dir"]]
    /\ orig = fs
    /\ listing = <<>>
    /\ rpc = "find"
    /\ renamed = {}
    /\ GravIdle
    /\ frame = 0
    /\ settings \in {s \in SettingsSet : s.GRAVITY = GRAVITY /\ s.TIMESCALE = TIMESCALE}
    /\ bodies = <<>>
    /\ collided = <<>>
    /\ updates = <<>>
    /\ everBounced = <<>>
    /\ running = TRUE
    /\ pc = "idle"
    /\ start = <<>>
    /\ frame0 = <<>>
    /\ thrust = FALSE
    /\ everThrust = FALSE
    /\ quitFrame = 0
    /\ accel = [a_x |-> Zero, a_y |-> Zero]
    /\ applied = <<>>

renOthers == <<settings, bodies, running, pc, frame, collided, start, frame0,
               updates, thrust, everThrust, everBounced, quitFrame, accel,
               gravVars, applied>>

\* find "lessons/" -depth -print |
Find ==
    /\ rpc = "find"
    /\ \E ord \in Orders : listing' = find_depth(fs, ord)
    /\ rpc' = "mv1"
    /\ UNCHANGED <<fs, orig, renamed>>
    /\ UNCHANGED renOthers

file == Head(listing)
tmpname == dirname(file) \o <<TmpName>>

\* read file; ...; mv "$file" "$tmpname"
Mv1 ==
    /\ rpc = "mv1"
    /\ listing # <<>>
    /\ fs' = mv(fs, file, tmpname).fs
    /\ renamed' = IF mv(fs, file, tmpname).ok THEN renamed \cup {file} ELSE renamed
    /\ rpc' = "mv2"
    /\ UNCHANGED <<listing, orig>>
    /\ UNCHANGED renOthers

\* mv "$tmpname" "$dir/$lowerbase"; done
Mv2 ==
    /\ rpc = "mv2"
    /\ LET r == mv(fs, tmpname, dirname(file) \o <<lowerbase(basename(file))>>)
       IN  /\ fs' = r.fs
           /\ renamed' = IF r.ok THEN renamed ELSE renamed \ {file}
    /\ listing' = Tail(listing)
    /\ rpc' = IF Tail(listing) = <<>> THEN "done" ELSE "mv1"
    /\ UNCHANGED orig
    /\ UNCHANGED renOthers

NextRename ==
    \/ Find
    \/ Mv1
    \/ Mv2

SpecRename == InitRename /\ [][NextRename]_vars

---------------------------------------------------------------------------
(* Claims *)

Bodies == 1..N

\* C1: one call of Body.update gives, per component, velocity' = velocity +
\* acceleration * d_t, then position' = position + velocity' * d_t with the
\* velocity already updated, and leaves the acceleration zero.
C1_UpdateIsSemiImplicitEuler ==
    [][pc = "update" =>
        \A i \in Bodies :
            LET b == bodies[i]
                c == bodies'[i]
                dt == settings.d_t
            IN  /\ c.v_x = RAdd(b.v_x, RMul(b.a_x, dt))
                /\ c.v_y = RAdd(b.v_y, RMul(b.a_y, dt))
                /\ c.x = RAdd(b.x, RMul(RAdd(b.v_x, RMul(b.a_x, dt)), dt))
                /\ c.y = RAdd(b.y, RMul(RAdd(b.v_y, RMul(b.a_y, dt)), dt))
                /\ c.a_x = Zero
                /\ c.a_y = Zero]_vars

\* Body.update has run with a non-zero acceleration, and the position it
\* produced is not the one the old velocity would have given.
C1_Witness ==
    /\ pc = "apply"
    /\ updates[1] = 1
    /\ accel.a_x # Zero
    /\ bodies[1].x # RAdd(start[1].x, RMul(start[1].v_x, settings.d_t))
    /\ bodies[1].a_x = Zero

\* C2: at the start of a frame, before its forces are applied, every
\* acceleration is zero; the acceleration Body.update integrates is the one
\* the forces of that frame set.
C2_AccelerationZeroAtFrameStart ==
    /\ pc \in {"while", "events", "forces"} =>
         \A i \in Bodies : bodies[i].a_x = Zero /\ bodies[i].a_y = Zero
    /\ pc = "integrate" =>
         \A i \in Bodies :
            bodies[i].a_x = Zero /\ bodies[i].a_y = R(settings.GRAVITY)

\* A second frame begins after a frame that applied gravity.
C2_Witness ==
    /\ pc = "forces"
    /\ frame = 2
    /\ settings.GRAVITY # 0
    /\ bodies[1].a_y = Zero
    /\ bodies[1].v_y # start[1].v_y

\* C3: with the same acceleration a applied before each Body.update, after
\* n updates the velocity is v0 + a * d_t * n.
C3_VelocityLinearInSteps ==
    \A i \in Bodies :
        LET adt == [a_x |-> RMul(accel.a_x, settings.d_t),
                    a_y |-> RMul(accel.a_y, settings.d_t)]
        IN  /\ bodies[i].v_x = RAdd(start[i].v_x, RMul(adt.a_x, R(updates[i])))
            /\ bodies[i].v_y = RAdd(start[i].v_y, RMul(adt.a_y, R(updates[i])))

\* Two updates under a non-zero acceleration have changed the velocity.
C3_Witness ==
    /\ updates[1] = 2
    /\ accel.a_x # Zero
    /\ accel.a_y # Zero
    /\ bodies[1].v_x # start[1].v_x
    /\ bodies[1].v_y # start[1].v_y

\* C4: with no force applied in any frame and no boundary crossed, after n
\* calls of Body.update the position is position0 + v0 * d_t * n and the
\* velocity is still v0.
C4_PositionLinearWithoutForce ==
    \A i \in Bodies :
        (/\ settings.GRAVITY = 0
         /\ i = 1 => ~everThrust
         /\ ~everBounced[i])
        => /\ bodies[i].v_x = start[i].v_x
           /\ bodies[i].v_y = start[i].v_y
           /\ bodies[i].x = RAdd(start[i].x,
                                 RMul(RMul(start[i].v_x, settings.d_t), R(updates[i])))
           /\ bodies[i].y = RAdd(start[i].y,
                                 RMul(RMul(start[i].v_y, settings.d_t), R(updates[i])))

\* A moving body has been updated twice without force or collision.
C4_Witness ==
    /\ settings.GRAVITY = 0
    /\ ~everThrust
    /\ ~everBounced[1]
    /\ updates[1] = 2
    /\ pc = "draw"
    /\ bodies[1].x # start[1].x
    /\ bodies[1].y # start[1].y

\* C5: the collision check negates exactly the velocity component
\* perpendicular to a crossed boundary, sets the position on that boundary,
\* leaves the other component alone and reports a collision; when no
\* boundary is crossed it changes nothing and reports none.
C5_ElasticBounce ==
    [][pc = "collide" =>
        \A i \in Bodies :
            LET b == bodies[i]
                c == bodies'[i]
                lo == Zero
                hiX == R(settings.SCREEN_WIDTH - b.size)
                hiY == R(settings.SCREEN_HEIGHT - b.size)
                left == RLess(b.x, lo)
                right == RLess(hiX, b.x)
                top == RLess(b.y, lo)
                bottom == RLess(hiY, b.y)
            IN  /\ collided'[i] = (left \/ right \/ top \/ bottom)
                /\ left => c.x = lo
                /\ right => c.x = hiX
                /\ top => c.y = lo
                /\ bottom => c.y = hiY
                /\ c.v_x = IF left \/ right THEN RNeg(b.v_x) ELSE b.v_x
                /\ c.v_y = IF top \/ bottom THEN RNeg(b.v_y) ELSE b.v_y
                /\ ~(left \/ right) => c.x = b.x
                /\ ~(top \/ bottom) => c.y = b.y
                /\ ~(left \/ right \/ top \/ bottom) => c = b]_vars

\* The body with vx = 5 has crossed x_max: it is on the boundary with
\* vx = -5 and its vy untouched, and a collision was reported.
C5_Witness ==
    /\ pc = "draw"
    /\ \E i \in Bodies :
         /\ collided[i]
         /\ frame0[i].v_x = R(5)
         /\ bodies[i].v_x = R(-5)
         /\ bodies[i].x = R(settings.SCREEN_WIDTH - bodies[i].size)
         /\ bodies[i].v_y = frame0[i].v_y
         /\ settings.GRAVITY = 0

\* C6: for two bodies at distinct positions force_vec_due_to returns a
\* vector of magnitude G * m1 * m2 / r^2, r^2 the squared distance of the
\* positions, that points from this body toward the other.
C6_NewtonGravity ==
    opc = "returned" =>
        LET dx == RSub(sun.pos.x, planet.pos.x)
            dy == RSub(sun.pos.y, planet.pos.y)
            r2 == RAdd(RMul(dx, dx), RMul(dy, dy))
            f_g == RDiv(RMul(G, RMul(planet.mass, sun.mass)), r2)
        IN  /\ RAdd(RMul(f.x, f.x), RMul(f.y, f.y)) = RMul(f_g, f_g)
            /\ RMul(f.x, dy) = RMul(f.y, dx)
            /\ RLess(Zero, RAdd(RMul(f.x, dx), RMul(f.y, dy)))

\* The force was computed for two bodies of different masses that lie on a
\* diagonal, so that both of its components count.
C6_Witness ==
    /\ opc = "returned"
    /\ planet.pos # sun.pos
    /\ planet.mass # sun.mass
    /\ G # R(1)
    /\ RLess(f.x, Zero)
    /\ RLess(Zero, f.y)

\* C7: every iteration of the loop runs Body.update exactly once for each
\* body; a frame with zero force leaves the velocity unchanged and advances
\* the position by velocity * d_t once.
C7_UpdateOncePerFrame ==
    \A i \in Bodies :
        /\ pc \in {"events", "forces", "integrate"} => updates[i] = frame - 1
        /\ pc \in {"collide", "draw", "tick", "while", "quit", "done"} =>
             updates[i] = frame
        /\ (pc = "collide" /\ settings.GRAVITY = 0 /\ (i = 1 => ~thrust)) =>
             /\ bodies[i].v_x = frame0[i].v_x
             /\ bodies[i].v_y = frame0[i].v_y
             /\ bodies[i].x = RAdd(frame0[i].x, RMul(frame0[i].v_x, settings.d_t))
             /\ bodies[i].y = RAdd(frame0[i].y, RMul(frame0[i].v_y, settings.d_t))

\* The second frame of a program without gravity has just integrated a
\* moving body.
C7_Witness ==
    /\ pc = "collide"
    /\ frame = 2
    /\ settings.GRAVITY = 0
    /\ ~thrust
    /\ updates[1] = 2
    /\ bodies[1].x # frame0[1].x

\* C8: once the event phase has seen QUIT, no further iteration starts, and
\* pygame.quit() is reached.
C8_QuitEndsLoop ==
    /\ [][quitFrame # 0 => frame' = frame]_vars
    /\ [](pc = "done" => ~running /\ quitFrame = frame)
    /\ (quitFrame # 0) ~> (pc = "done")

\* QUIT was seen in the first iteration; that iteration was completed and
\* pygame.quit() was reached with no second iteration.
C8_Witness ==
    /\ pc = "done"
    /\ quitFrame = 1
    /\ frame = 1
    /\ updates[1] = 1

\* C9: mass and size keep the values given at construction, and d_t is the
\* value computed in Settings.__post_init__.
C9_MassSizeConstant ==
    /\ \A i \in Bodies :
         /\ bodies[i].mass = start[i].mass
         /\ bodies[i].size = start[i].size
         /\ bodies[i].mass = R(settings.MASS)
         /\ bodies[i].size = settings.OBJECT_SIZE
    /\ settings.d_t = Rat(settings.TIMESCALE, settings.FPS)

\* A body has had gravity applied, been updated, been moved by a key and
\* bounced.
C9_Witness ==
    /\ pc = "while"
    /\ frame = 2
    /\ settings.GRAVITY # 0
    /\ everThrust
    /\ everBounced[1]

\* The path with each of its name components in lower case.
LowerPath(p) == [i \in DOMAIN p |-> [j \in DOMAIN p[i] |-> tr(p[i][j])]]

\* No two entries of one directory have names that differ only in case.
NoCaseClash(t) ==
    \A p, q \in DOMAIN t :
        (p # q /\ dirname(p) = dirname(q)) => LowerPath(p) # LowerPath(q)

\* Every entry of the tree before the run is at its lower-case path, and
\* the tree holds nothing else; every line went through both renames.
AllAtLowerPath ==
    /\ \A p \in DOMAIN orig :
         LowerPath(p) \in DOMAIN fs /\ fs[LowerPath(p)] = orig[p]
    /\ DOMAIN fs = { LowerPath(p) : p \in DOMAIN orig }
    /\ renamed = DOMAIN orig

\* C10, as stated: after the script every entry that was under lessons/ is at
\* the path of its lower-cased name components, for every tree, two entries
\* that differ only in case included, and each went through both renames.
C10_AsStated == rpc = "done" => AllAtLowerPath

\* C10, amended: the same for every tree in which no two entries of one
\* directory have names that differ only in case.
C10_LowercaseKeepsEveryEntry ==
    (rpc = "done" /\ NoCaseClash(orig)) => AllAtLowerPath

\* The script has finished on a tree of nested directories with upper-case
\* names that holds a file whose name was already lower case.
C10_Witness ==
    /\ rpc = "done"
    /\ NoCaseClash(orig)
    /\ <<Lessons, <<"A", "b">>, <<"A", "b">>, <<"a", "b">>>> \in DOMAIN orig
    /\ orig[<<Lessons, <<"A", "b">>, <<"A", "b">>, <<"a", "b">>>>].kind = "file"
    /\ <<Lessons, <<"a", "b">>, <<"a", "b">>, <<"a", "b">>>> \in DOMAIN fs
    /\ <<Lessons, <<"A", "b">>, <<"A", "b">>, <<"a", "b">>>> \in renamed

\* C11: when the planet and the sun that attracts it are at the same position
\* (r == 0), the update produces no force value: it ends in a division by
\* zero that nothing handles (no later step of the program follows), and the
\* velocity and the position of the planet stay as they were before the
\* update.
C11_ZeroSeparationRaises ==
    [][ /\ (opc \in {"ready", "returned"} /\ planet.pos = sun.pos) =>
             /\ opc' = "ZeroDivisionError"
             /\ f' = f
             /\ planet'.vel = planet.vel
             /\ planet'.pos = planet.pos
        /\ opc # "ZeroDivisionError" ]_vars

\* The update of a moving planet that sits on its sun has ended in the
\* error.
C11_Witness ==
    /\ opc = "ZeroDivisionError"
    /\ planet.pos = sun.pos
    /\ planet.vel # Vec(Zero, Zero)
    /\ planet.pos # Vec(Zero, Zero)

\* The sum of force / mass over the forces applied in this frame.
RECURSIVE SumApplied(_, _)
SumApplied(c, i) ==
    IF i = 0 THEN Zero ELSE RAdd(SumApplied(c, i - 1), applied[i][c])

\* force / mass of the last force applied in this frame that sets the
\* component, zero when none did.
RECURSIVE LastApplied(_, _)
LastApplied(c, i) ==
    IF i = 0 THEN Zero
    ELSE IF c \in applied[i].sets THEN applied[i][c]
    ELSE LastApplied(c, i - 1)

\* C12, as stated: the acceleration that Body.update integrates is the sum
\* of force / mass over every force applied in the frame, in whatever order
\* they were applied.
C12_AsStated ==
    pc = "integrate" =>
        /\ bodies[1].a_x = SumApplied("a_x", Len(applied))
        /\ bodies[1].a_y = SumApplied("a_y", Len(applied))

\* C12, amended: each force method assigns the components it computes, so
\* the acceleration that Body.update integrates is, per component, the
\* force / mass of the last force applied in the frame that sets it.
C12_LastForceSetsAcceleration ==
    pc = "integrate" =>
        /\ bodies[1].a_x = LastApplied("a_x", Len(applied))
        /\ bodies[1].a_y = LastApplied("a_y", Len(applied))

\* The spring, then gravity, were applied in the second frame, and the
\* acceleration about to be integrated is not their sum.
C12_Witness ==
    /\ pc = "integrate"
    /\ frame = 2
    /\ Len(applied) = 2
    /\ applied[1].name = "spring"
    /\ applied[2].name = "gravity"
    /\ applied[1].a_y # Zero
    /\ applied[2].a_y # Zero
    /\ bodies[1].a_y = applied[2].a_y
    /\ bodies[1].a_x = applied[1].a_x

\* The position of a body lies within the boundaries of the world.
Inside(b) ==
    /\ ~RLess(b.x, x_min) /\ ~RLess(x_max(b, settings), b.x)
    /\ ~RLess(b.y, y_min) /\ ~RLess(y_max(b, settings), b.y)

C14_OrbitUpdateMatchesBodyUpdate ==
    /\ []((pc = "ready" /\ opc = "ready") =>
            /\ planet.vel = Vec(bodies[1].v_x, bodies[1].v_y)
            /\ planet.pos = Vec(bodies[1].x, bodies[1].y)
            /\ updates[1] = frame)
    /\ [][sun'.pos = sun.pos /\ sun'.vel = sun.vel]_vars

\* Both updates have run twice, under two different forces with both
\* components, and the planet has moved and changed its velocity.
C14_Witness ==
    /\ pc = "ready"
    /\ opc = "ready"
    /\ frame = 2
    /\ f = Vec(R(4), R(-6))
    /\ bodies[1].a_x = Zero
    /\ planet.vel # Vec(start[1].v_x, start[1].v_y)
    /\ planet.vel # Vec(frame0[1].v_x, frame0[1].v_y)
    /\ planet.pos # Vec(frame0[1].x, frame0[1].y)
    /\ bodies[1].mass # R(1)

=============================================================================
